---- MODULE Spec2Model ----
(***************************************************************************)
(* A model of the two asynchronous coordination primitives of n-util:      *)
(*   - the debounce decorator (the "coalescing call guard"), and           *)
(*   - BackgroundProcessor (the "background action queue").                *)
(* JavaScript runs one continuation at a time, so every action below is    *)
(* one run-to-completion step: the synchronous part of a call, or the      *)
(* continuation that follows an await, a timer or a promise settlement.    *)
(***************************************************************************)
EXTENDS Integers, Sequences, FiniteSets, TLC

\* ------------------------------------------------------------------------
\* Bounds of the model
\* ------------------------------------------------------------------------
MaxCalls == 4

NumInstances == 2

MaxActions == 3

MaxDelayMs == 2

MaxSetupCalls == 2

MaxVersionPart == 1

MaxAmount == 3

\* ------------------------------------------------------------------------
\* Program constants
\* ------------------------------------------------------------------------
\* the value null of scheduledCall (no call is scheduled)
NoCall == 0

\* breakIntervalMilliseconds = 1000 by default
DefaultBreakInterval == 1000

Instances == 1..NumInstances

ActionIds == 1..MaxActions

VARIABLES
    \* ---- debounce ----
    hasDelay,         \* whether the decorator was given a delay (delay != null)
    isActive,         \* this[activeKey], per owner instance
    scheduledCall,    \* this[scheduledCallKey], per owner instance: the
                      \* arguments captured by the scheduled closure, or NoCall
    callCount,        \* calls of the replacement method made so far; the n-th
                      \* call carries the argument n
    loops,            \* per owner instance: the invocations of the replacement
                      \* method that are inside the while loop, each with the
                      \* call that made it (id), where it is suspended (pc)
                      \* and its local currentCall (cur)
    execLog,          \* the arguments the target method was executed with
    lastArg,          \* per instance: the argument of the last call made
    callsSinceStart,  \* per instance: calls made since the last execution
                      \* of the target started
    lastReturn,       \* how the invocation that ended in the last step ended:
                      \* "returned", "threw", or "none" when none ended
    \* ---- BackgroundProcessor ----
    breakIntervalMilliseconds,
    breakOnlyWhenNoWork,
    actionsToProcess,
    actionsExecuting,
    isDisposed,
    timer,            \* armed: outstanding setTimeout timers; live: whether
                      \* the one this._timeout names is outstanding; delay:
                      \* the delay the last one was armed with
    enqueued,         \* Action objects constructed so far (ids 1..enqueued)
    rec,              \* per Action: its fields (errorHandler), the callback
                      \* it was executed with, and what happened to it:
                      \* outcome, handler calls, console.error reports
    startLog,         \* the actions started (execute called), in order
    lastCall,         \* what the last step returned to an outside caller:
                      \* the outcome of processAction, or of a dispose call
                      \* that found the processor already disposed and
                      \* returned at once; "none" after every other step
    disposal,         \* the dispose call that found the processor not yet
                      \* disposed: where it is (pc), its killQueue, and the
                      \* two arrays as they were when it was called
    \* ---- setting up a debounce decorator ----
    variant,          \* which debounce: "standard" (decorators with a context
                      \* object) or "legacy" (decorators with a descriptor)
    delayGiven,       \* whether debounce is called with a Duration (and the
                      \* decorator it returns is applied) or applied directly
    delayMs,          \* delay.toMilliSeconds() of that Duration
    kind,             \* what the decorator is applied to
    setupPc,          \* "start", "created" (debounce(delay) has returned a
                      \* decorator), "applied" (the replacement method is in
                      \* place), "threwAtCreate", "threwAtApply"
    setupCalls,       \* calls of the replacement method made so far
    \* ---- Version ----
    thisVersion,      \* <<major, minor, patch>> of the Version compareTo is
                      \* called on
    otherVersion,     \* <<major, minor, patch>> of its argument
    comparison,       \* whether compareTo has returned, and what
    \* ---- Duration ----
    amount,           \* the number given to a factory: its sign and magnitude
    unit,             \* the factory called: fromMilliSeconds .. fromWeeks
    duration,         \* "none"; "threw" when the factory threw; "made" with
                      \* the _ms of the instance
    conversion        \* the to... method called on the instance, if any, and
                      \* the number it returned

guardVars == <<hasDelay, isActive, scheduledCall, callCount, loops, execLog,
               lastArg, callsSinceStart, lastReturn>>

procVars == <<breakIntervalMilliseconds, breakOnlyWhenNoWork, actionsToProcess,
              actionsExecuting, isDisposed, timer, enqueued, rec, startLog,
              lastCall, disposal>>

setupVars == <<variant, delayGiven, delayMs, kind, setupPc, setupCalls>>

versionVars == <<thisVersion, otherVersion, comparison>>

durationVars == <<amount, unit, duration, conversion>>

valueVars == <<versionVars, durationVars>>

vars == <<guardVars, procVars, setupVars, valueVars>>

\* ========================================================================
\* debounce
\* ========================================================================

\* the state of an owner instance before its first guarded call: both
\* symbol-keyed properties are undefined (falsy / == null)
GuardInit ==
    /\ hasDelay \in BOOLEAN
    /\ isActive = [i \in Instances |-> FALSE]
    /\ scheduledCall = [i \in Instances |-> NoCall]
    /\ callCount = 0
    /\ loops = [i \in Instances |-> {}]
    /\ execLog = <<>>
    /\ lastArg = [i \in Instances |-> NoCall]
    /\ callsSinceStart = [i \in Instances |-> 0]
    /\ lastReturn = "none"

\* if (this[activeKey]) return;
Coalesced(act) == act

\* while (this[scheduledCallKey] != null && !this[activeKey])
LoopCondition(sc, act) == sc # NoCall /\ ~act

\* this[activeKey] = true;
SetActiveForgotten(flags, i) == flags

\* mutation of SetActive: the flag is kept in one place for all instances
SetActiveOnAll(flags, i) == [k \in Instances |-> TRUE]

SetActive(flags, i) == [flags EXCEPT ![i] = TRUE]

\* finally { this[activeKey] = false; }
ClearActiveForgotten(flags, i) == flags

ClearActive(flags, i) == [flags EXCEPT ![i] = FALSE]

\* const currentCall = this[scheduledCallKey]; this[scheduledCallKey] = null;
\* await currentCall();   -- the closure calls the target synchronously, so the
\* execution of the target starts in this step; a null currentCall throws
\* inside the try block and leaves through finally. id is the invocation, sc
\* and act the scheduled call and the flags when these lines are reached,
\* rest the other invocations inside the loop on instance i
\* mutation of StartRun: this[scheduledCallKey] is not set to null
StartRunKeepsScheduled(id, i, sc, act, rest) ==
    IF sc = NoCall
    THEN /\ isActive' = ClearActive(act, i)
         /\ scheduledCall' = [scheduledCall EXCEPT ![i] = NoCall]
         /\ loops' = [loops EXCEPT ![i] = rest]
         /\ lastReturn' = "threw"
         /\ UNCHANGED <<execLog, callsSinceStart>>
    ELSE /\ isActive' = act
         /\ scheduledCall' = [scheduledCall EXCEPT ![i] = sc]
         /\ loops' = [loops EXCEPT ![i] =
                        rest \cup {[id |-> id, pc |-> "exec", cur |-> sc]}]
         /\ execLog' = Append(execLog, sc)
         /\ callsSinceStart' = [callsSinceStart EXCEPT ![i] = 0]
         /\ lastReturn' = "none"

StartRun(id, i, sc, act, rest) ==
    IF sc = NoCall
    THEN /\ isActive' = ClearActive(act, i)
         /\ scheduledCall' = [scheduledCall EXCEPT ![i] = NoCall]
         /\ loops' = [loops EXCEPT ![i] = rest]
         /\ lastReturn' = "threw"
         /\ UNCHANGED <<execLog, callsSinceStart>>
    ELSE /\ isActive' = act
         /\ scheduledCall' = [scheduledCall EXCEPT ![i] = NoCall]
         /\ loops' = [loops EXCEPT ![i] =
                        rest \cup {[id |-> id, pc |-> "exec", cur |-> sc]}]
         /\ execLog' = Append(execLog, sc)
         /\ callsSinceStart' = [callsSinceStart EXCEPT ![i] = 0]
         /\ lastReturn' = "none"

\* one pass through the head of the loop body: set the flag, then either
\* suspend in the delay or go on to run the scheduled call. n is the number
\* of calls made in this step (1 when the loop is entered from a call, 0 when
\* it goes round)
LoopBodyAlwaysDelayed(id, i, sc, n, rest) ==
    /\ isActive' = SetActive(isActive, i)
    /\ scheduledCall' = [scheduledCall EXCEPT ![i] = sc]
    /\ loops' = [loops EXCEPT ![i] =
                   rest \cup {[id |-> id, pc |-> "delay", cur |-> NoCall]}]
    /\ callsSinceStart' = [callsSinceStart EXCEPT ![i] = @ + n]
    /\ lastReturn' = "none"
    /\ UNCHANGED execLog

LoopBody(id, i, sc, n, rest) ==
    IF hasDelay
    THEN /\ isActive' = SetActive(isActive, i)
         /\ scheduledCall' = [scheduledCall EXCEPT ![i] = sc]
         /\ loops' = [loops EXCEPT ![i] =
                        rest \cup {[id |-> id, pc |-> "delay", cur |-> NoCall]}]
         /\ callsSinceStart' = [callsSinceStart EXCEPT ![i] = @ + n]
         /\ lastReturn' = "none"
         /\ UNCHANGED execLog
    ELSE StartRun(id, i, sc, SetActive(isActive, i), rest)

\* the invocation returns without entering the loop, its call scheduled
ReturnAtOnceNotScheduled(i, n) ==
    /\ callsSinceStart' = [callsSinceStart EXCEPT ![i] = @ + 1]
    /\ lastReturn' = "returned"
    /\ UNCHANGED <<scheduledCall, isActive, loops, execLog>>

ReturnAtOnce(i, n) ==
    /\ scheduledCall' = [scheduledCall EXCEPT ![i] = n]
    /\ callsSinceStart' = [callsSinceStart EXCEPT ![i] = @ + 1]
    /\ lastReturn' = "returned"
    /\ UNCHANGED <<isActive, loops, execLog>>

\* a call of the replacement method on instance i, up to its first await
Call(i) ==
    /\ callCount < MaxCalls
    /\ LET n == callCount + 1 IN
       /\ callCount' = n
       /\ lastArg' = [lastArg EXCEPT ![i] = n]
       /\ IF Coalesced(isActive[i])
          THEN ReturnAtOnce(i, n)
          ELSE IF LoopCondition(n, isActive[i])
               THEN LoopBody(n, i, n, 1, loops[i])
               ELSE ReturnAtOnce(i, n)
    /\ UNCHANGED hasDelay
    /\ UNCHANGED <<procVars, setupVars, valueVars>>

\* await Delay.milliseconds(...) is over: the invocation goes on
DelayElapsed(i, fr) ==
    /\ fr.pc = "delay"
    /\ StartRun(fr.id, i, scheduledCall[i], isActive, loops[i] \ {fr})
    /\ UNCHANGED <<hasDelay, callCount, lastArg>>
    /\ UNCHANGED <<procVars, setupVars, valueVars>>

\* the promise of the target method settles (fulfilled or rejected)
Settle(i, fr, ok) ==
    /\ fr.pc = "exec"
    /\ loops' = [loops EXCEPT ![i] =
                   (@ \ {fr}) \cup
                   {[fr EXCEPT !.pc = IF ok THEN "settledOk" ELSE "settledFail"]}]
    /\ lastReturn' = "none"
    /\ UNCHANGED <<hasDelay, isActive, scheduledCall, callCount, execLog,
                   lastArg, callsSinceStart>>
    /\ UNCHANGED <<procVars, setupVars, valueVars>>

\* the continuation after await currentCall(): the finally block clears the
\* flag; a rejection then leaves the async function (there is no catch), a
\* fulfilment goes back to the loop condition
Resume(i, fr) ==
    /\ fr.pc \in {"settledOk", "settledFail"}
    /\ IF fr.pc = "settledFail"
       THEN /\ isActive' = ClearActive(isActive, i)
            /\ loops' = [loops EXCEPT ![i] = @ \ {fr}]
            /\ lastReturn' = "threw"
            /\ UNCHANGED <<scheduledCall, execLog, callsSinceStart>>
       ELSE IF LoopCondition(scheduledCall[i], ClearActive(isActive, i)[i])
            THEN LoopBody(fr.id, i, scheduledCall[i], 0, loops[i] \ {fr})
            ELSE /\ isActive' = ClearActive(isActive, i)
                 /\ loops' = [loops EXCEPT ![i] = @ \ {fr}]
                 /\ lastReturn' = "returned"
                 /\ UNCHANGED <<scheduledCall, execLog, callsSinceStart>>
    /\ UNCHANGED <<hasDelay, callCount, lastArg>>
    /\ UNCHANGED <<procVars, setupVars, valueVars>>

GuardNext ==
    \/ \E i \in Instances : Call(i)
    \/ \E i \in Instances : \E fr \in loops[i] : DelayElapsed(i, fr)
    \/ \E i \in Instances : \E fr \in loops[i] : \E ok \in BOOLEAN :
          Settle(i, fr, ok)
    \/ \E i \in Instances : \E fr \in loops[i] : Resume(i, fr)

\* ------------------------------------------------------------------------
\* Properties of debounce
\* ------------------------------------------------------------------------

\* the invocations on instance i whose target execution is in flight
InFlight(i) == {fr \in loops[i] : fr.pc = "exec"}

\* C1: for every owner instance, at most one execution of the wrapped method
\* is in flight at any time, whatever the interleaving of calls and with or
\* without a settle delay.
C1_AtMostOneExecutionInFlight ==
    \A i \in Instances : Cardinality(InFlight(i)) <= 1

\* two calls were made on an instance while its execution is in flight
C1_Witness ==
    \E i \in Instances : Cardinality(InFlight(i)) = 1 /\ callsSinceStart[i] >= 2

\* C2: when the continuation of a completed run is reached and N >= 1 calls
\* were made during that run, one further execution is begun in that very
\* step, for the arguments of the last call (with a settle delay: its settle
\* delay is begun with those arguments scheduled).
C2_OneMoreRunWithLastArgs ==
    [][\A i \in Instances : \A fr \in loops[i] :
          (/\ fr.pc \in {"settledOk", "settledFail"}
           /\ fr \notin loops'[i]
           /\ callsSinceStart[i] >= 1)
          => /\ isActive'[i]
             /\ IF hasDelay
                THEN /\ [id |-> fr.id, pc |-> "delay", cur |-> NoCall] \in loops'[i]
                     /\ scheduledCall'[i] = lastArg[i]
                ELSE /\ [id |-> fr.id, pc |-> "exec", cur |-> lastArg[i]]
                            \in loops'[i]
                     /\ execLog' = Append(execLog, lastArg[i])
      ]_vars

\* C10: whenever no invocation is inside the run loop of an instance (the
\* loop has exited, or has never run), no call is left pending on it.
C10_NoPendingCallWhenLoopExited ==
    \A i \in Instances : loops[i] = {} => scheduledCall[i] = NoCall

\* C11: the active flag is never left set by a run that fails: the step in
\* which a rejected run ends clears the flag, the flag is clear whenever no
\* invocation is inside the loop, and a call made then enters the loop and
\* begins a new run (it does not return as coalesced).
C11_FlagClearedAfterFailingRun ==
    [][\A i \in Instances :
          /\ \A fr \in loops[i] :
                (fr.pc = "settledFail" /\ fr \notin loops'[i]) => ~isActive'[i]
          /\ loops'[i] = {} => ~isActive'[i]
          /\ (loops[i] = {} /\ lastArg'[i] # lastArg[i])
             => /\ isActive'[i]
                /\ \E fr \in loops'[i] :
                      /\ fr.id = lastArg'[i]
                      /\ fr.pc = IF hasDelay THEN "delay" ELSE "exec"
      ]_vars

\* a run has failed and its invocation has ended in this step: the flag of
\* its instance is clear, no invocation is inside the loop, and a further
\* call can still be made
C11_Witness ==
    /\ lastReturn = "threw"
    /\ callCount < MaxCalls
    /\ \E i \in Instances :
          /\ lastArg[i] # NoCall
          /\ \A j \in Instances \ {i} : lastArg[j] = NoCall
          /\ loops[i] = {}
          /\ ~isActive[i]
          /\ Len(execLog) >= 1

\* C12: a call that is pending on an instance (scheduled, not yet taken by a
\* run) leads to an execution of the target on that instance with the
\* arguments of that call or of a later one, when every delay elapses, every
\* execution settles and every continuation runs.
C12_EveryCallEventuallyRuns ==
    \A i \in Instances : \A n \in 1..MaxCalls :
       (scheduledCall[i] = n)
       ~> (\E fr \in loops[i] : fr.pc = "exec" /\ fr.cur >= n)

\* C13: with a settle delay, while an invocation is suspended in the delay it
\* is the only one inside the loop of its instance and the last call made is
\* the one scheduled; when the delay is over, the K >= 1 calls made since the
\* last execution began give one execution, with the arguments of the last of
\* them, and nothing is left scheduled; and when that run ends with no call
\* made meanwhile, the loop is left without a further execution.
C13_DelayedCallsGiveOneRunOfLast ==
    [][hasDelay =>
       \A i \in Instances :
          /\ \A fr \in loops'[i] :
                fr.pc = "delay"
                => loops'[i] = {fr} /\ scheduledCall'[i] = lastArg'[i]
          /\ \A fr \in loops[i] :
                (fr.pc = "delay" /\ fr \notin loops'[i])
                => /\ callsSinceStart[i] >= 1
                   /\ loops'[i] = {[id |-> fr.id, pc |-> "exec",
                                    cur |-> lastArg[i]]}
                   /\ execLog' = Append(execLog, lastArg[i])
                   /\ scheduledCall'[i] = NoCall
          /\ \A fr \in loops[i] :
                (/\ fr.pc \in {"settledOk", "settledFail"}
                 /\ fr \notin loops'[i]
                 /\ callsSinceStart[i] = 0)
                => /\ loops'[i] = {}
                   /\ execLog' = execLog
                   /\ scheduledCall'[i] = NoCall
      ]_vars

\* three calls were made on an idle instance within the settle delay of the
\* first; the delay is over and the one execution, that of call 3, is running
C13_Witness ==
    /\ hasDelay
    /\ callCount = 3
    /\ execLog = <<3>>
    /\ \E i \in Instances :
          loops[i] = {[id |-> 1, pc |-> "exec", cur |-> 3]}

\* C14: with no delay configured, a call made on an instance with no
\* invocation inside the loop (the first call included) starts the execution
\* of the target with its own arguments in the step of the call itself, and
\* a call made while an invocation is inside the loop starts none: it is
\* scheduled and returns.
C14_NoDelayRunsWithinTheCall ==
    [][~hasDelay =>
       \A i \in Instances :
          lastArg'[i] # lastArg[i]
          => IF loops[i] = {}
             THEN /\ loops'[i] = {[id |-> lastArg'[i], pc |-> "exec",
                                   cur |-> lastArg'[i]]}
                  /\ execLog' = Append(execLog, lastArg'[i])
                  /\ scheduledCall'[i] = NoCall
             ELSE /\ loops'[i] = loops[i]
                  /\ execLog' = execLog
                  /\ scheduledCall'[i] = lastArg'[i]
                  /\ lastReturn' = "returned"
      ]_vars

\* with no delay, the first call is executing, a second call was coalesced,
\* and on another instance a later call has started executing at once
C14_Witness ==
    /\ ~hasDelay
    /\ \E i, j \in Instances :
          /\ i # j
          /\ loops[i] = {[id |-> 1, pc |-> "exec", cur |-> 1]}
          /\ scheduledCall[i] = 2
          /\ loops[j] = {[id |-> 3, pc |-> "exec", cur |-> 3]}

\* C15: the step in which a rejected run ends does not end the invocation
\* that started the run with the failure (the promise that invocation
\* returned to its caller does not reject), and the loop goes on: a call that
\* is scheduled at that moment gets its run.
C15_FailureNeverEscapesTheLoop ==
    [][\A i \in Instances : \A fr \in loops[i] :
          (fr.pc = "settledFail" /\ fr \notin loops'[i])
          => /\ lastReturn' # "threw"
             /\ scheduledCall[i] # NoCall
                => \E g \in loops'[i] : g.id = fr.id /\ g.pc \in {"delay", "exec"}
      ]_vars

\* C32: the guard state belongs to the owner instance: a call on instance j
\* changes neither the active flag, nor the pending call, nor the invocations
\* in the loop of another instance, and a call on an instance whose own flag
\* is clear enters the loop whatever runs on the other instances (it is not
\* coalesced with them and not blocked by them).
C32_GuardStatePerInstance ==
    [][\A j \in Instances :
          lastArg'[j] # lastArg[j]
          => /\ \A i \in Instances \ {j} :
                   /\ isActive'[i] = isActive[i]
                   /\ scheduledCall'[i] = scheduledCall[i]
                   /\ loops'[i] = loops[i]
             /\ ~isActive[j]
                => \E fr \in loops'[j] :
                      /\ fr.id = lastArg'[j]
                      /\ fr.pc = IF hasDelay THEN "delay" ELSE "exec"
      ]_vars

\* two instances each have their own execution in flight, and a further
\* call is pending on one of them only
C32_Witness ==
    \E i, j \in Instances :
        /\ i # j
        /\ Cardinality(InFlight(i)) = 1 /\ Cardinality(InFlight(j)) = 1
        /\ isActive[i] /\ isActive[j]
        /\ scheduledCall[i] # NoCall /\ scheduledCall[j] = NoCall

\* C33: the executions of the wrapped method are at most as many as the
\* calls, each execution uses the arguments of a call that was made, and no
\* two executions use the arguments of the same call.
C33_EachCallExecutedAtMostOnce ==
    /\ Len(execLog) <= callCount
    /\ \A k \in 1..Len(execLog) : execLog[k] \in 1..callCount
    /\ \A j, k \in 1..Len(execLog) : execLog[j] = execLog[k] => j = k

\* three calls were made on one instance and two of them were executed: the
\* second call was replaced by the third while the first was running
C33_Witness ==
    /\ callCount = 3
    /\ execLog = <<1, 3>>
    /\ \E i \in Instances : lastArg[i] = 3 /\ Cardinality(InFlight(i)) = 1

\* ========================================================================
\* Setting up a debounce decorator
\* ========================================================================

Variants == {"standard", "legacy"}

\* what a decorator can be applied to; "noContext" is an application with no
\* context object (standard) or no descriptor (legacy)
Kinds == {"method", "getter", "setter", "accessor", "field", "class",
          "noContext"}

\* the descriptor a legacy decorator receives: a data descriptor for a
\* method, an accessor descriptor (get/set) for an accessor, undefined for a
\* field or a class
LegacyDescriptor(k) ==
    CASE k = "method" -> "data"
      [] k \in {"getter", "setter", "accessor"} -> "accessor"
      [] OTHER -> "undefined"

\* whether debounce(delay) accepts the delay.
\* standard: .ensure(t => t.toMilliSeconds() > 0, ...);
\* legacy: const delayMs = delayOrTarget.toMilliSeconds();  -- no test
DelayAccepted(v, ms) == IF v = "standard" THEN ms > 0 ELSE TRUE

\* whether the application of the decorator accepts its target.
\* standard: context == null throws; given(kind).ensure(t => t === "method");
\* legacy: given(descriptor).ensureHasValue().ensureIsObject(), and then
\* descriptor.value = async function ...: on an accessor descriptor the
\* value makes the descriptor invalid, and defining the property with it
\* throws while the decorator is being applied
TargetAccepted(v, k) ==
    IF v = "standard" THEN k = "method" ELSE LegacyDescriptor(k) = "data"

SetupInit ==
    /\ variant \in Variants
    /\ delayGiven \in BOOLEAN
    /\ delayMs \in (IF delayGiven THEN 0..MaxDelayMs ELSE {0})
    /\ kind \in Kinds
    /\ setupPc = "start"
    /\ setupCalls = 0

\* debounce(delay): validates the delay and returns the decorator
CreateDecorator ==
    /\ setupPc = "start"
    /\ delayGiven
    /\ setupPc' = IF DelayAccepted(variant, delayMs)
                  THEN "created" ELSE "threwAtCreate"
    /\ UNCHANGED <<variant, delayGiven, delayMs, kind, setupCalls>>
    /\ UNCHANGED <<guardVars, procVars, valueVars>>

\* the decorator is applied to a member of a class: the decorator returned by
\* debounce(delay), or debounce itself when no delay is given
ApplyDecorator ==
    /\ setupPc = IF delayGiven THEN "created" ELSE "start"
    /\ setupPc' = IF TargetAccepted(variant, kind)
                  THEN "applied" ELSE "threwAtApply"
    /\ UNCHANGED <<variant, delayGiven, delayMs, kind, setupCalls>>
    /\ UNCHANGED <<guardVars, procVars, valueVars>>

\* the replacement method exists and is called
GuardedCall ==
    /\ setupPc = "applied"
    /\ setupCalls < MaxSetupCalls
    /\ setupCalls' = setupCalls + 1
    /\ UNCHANGED <<variant, delayGiven, delayMs, kind, setupPc>>
    /\ UNCHANGED <<guardVars, procVars, valueVars>>

SetupNext == CreateDecorator \/ ApplyDecorator \/ GuardedCall

\* C16: a decorator is never created for a delay of zero milliseconds, the
\* guard is never in place on a target that is not a method, and so no
\* guarded call is ever made under an invalid configuration.
C16_InvalidConfigurationRejectedAtSetup ==
    /\ (delayGiven /\ delayMs = 0) => setupPc \notin {"created", "applied"}
    /\ kind # "method" => setupPc # "applied"
    /\ setupCalls > 0 => (kind = "method" /\ (delayGiven => delayMs > 0))

\* ========================================================================
\* BackgroundProcessor
\* ========================================================================

\* how the synchronous part of Action.execute can go: this._action() returns
\* a promise; or it throws and this._errorHandler(error) returns a promise;
\* or it throws and this._errorHandler(error) throws as well
SyncHows == {"promise", "throwHandlerPromise", "throwHandlerThrow"}

\* how the promise of this._action() can settle: fulfilled; or rejected, with
\* the error handler then returning a promise or throwing
SettleHows == {"ok", "rejectHandlerPromise", "rejectHandlerThrow"}

\* an Action that has not been constructed yet
NoRecord ==
    [status |-> "none", given |-> "none", errorHandler |-> "none",
     callback |-> "none", outcome |-> "none", handlerCalls |-> 0,
     handlerInvoked |-> "none", handlerOutcome |-> "none", reported |-> 0,
     callbackRuns |-> 0]

\* errorHandler || this._defaultErrorHandler
RecordHandlerAlwaysDefault(h) == "default"

RecordHandler(h) == IF h = "none" THEN "default" ELSE h

\* new Action(action, errorHandler || this._defaultErrorHandler)
NewAction(h) ==
    [NoRecord EXCEPT !.status = "pending", !.given = h,
                     !.errorHandler = RecordHandler(h)]

\* if (this._isDisposed) throw new ObjectDisposedException(this);
DisposedCheckMissing(disposed) == FALSE

DisposedCheck(disposed) == disposed

\* let timeout = this._breakIntervalMilliseconds;
\* if (this._breakOnlyWhenNoWork && this._actionsToProcess.length > 0) timeout = 0;
TickDelayIgnoresWork(q) == breakIntervalMilliseconds

TickDelay(q) ==
    IF breakOnlyWhenNoWork /\ Len(q) > 0 THEN 0 ELSE breakIntervalMilliseconds

\* this._timeout = setTimeout(..., timeout)
Arm(t, q) == [armed |-> t.armed + 1, live |-> TRUE, delay |-> TickDelay(q)]

\* _initiateBackgroundProcessing(): nothing when disposed, else arm a timer
InitiateIgnoringDisposed(t, q, disposed) == Arm(t, q)

\* mutation of InitiateBackgroundProcessing: no timer is ever set
InitiateNever(t, q, disposed) == t

InitiateBackgroundProcessing(t, q, disposed) ==
    IF disposed THEN t ELSE Arm(t, q)

\* if (this._timeout) clearTimeout(this._timeout);  -- clears the timer that
\* this._timeout names, when it has not fired yet
ClearTimeoutSkipped(t) == t

ClearTimeout(t) ==
    IF t.live THEN [t EXCEPT !.armed = @ - 1, !.live = FALSE] ELSE t

\* this._actionsToProcess.shift()
PopLast(q) == [action |-> q[Len(q)], rest |-> SubSeq(q, 1, Len(q) - 1)]

Shift(q) == [action |-> Head(q), rest |-> Tail(q)]

\* this._actionsExecuting.remove(action): the first occurrence is taken out
RemoveNothing(s, a) == s

Remove(s, a) ==
    IF \E k \in 1..Len(s) : s[k] = a
    THEN LET k == CHOOSE j \in 1..Len(s) :
                      s[j] = a /\ \A m \in 1..(j - 1) : s[m] # a
         IN  SubSeq(s, 1, k - 1) \o SubSeq(s, k + 1, Len(s))
    ELSE s

\* postExecuteCallback() is called for the record
CallbackCalled(r) == [r EXCEPT !.status = "done", !.callbackRuns = @ + 1]

\* the handler failed (it threw, or its promise rejected):
\* console.error(error); postExecuteCallback();
HandlerFailedNoCallback(r, how) ==
    [r EXCEPT !.handlerOutcome = how, !.reported = @ + 1, !.status = "stuck"]

HandlerFailed(r, how) ==
    CallbackCalled([r EXCEPT !.handlerOutcome = how, !.reported = @ + 1])

\* the handler's promise fulfilled: .then(() => postExecuteCallback())
HandlerSucceededNoCallback(r) ==
    [r EXCEPT !.handlerOutcome = "ok", !.status = "stuck"]

HandlerSucceeded(r) == CallbackCalled([r EXCEPT !.handlerOutcome = "ok"])

\* the action failed (cause: "threw" or "rejected"): this._errorHandler(error)
\* is called and either throws or returns a promise
InvokeHandler(r, cause, handlerThrows) ==
    LET r1 == [r EXCEPT !.outcome = cause, !.handlerCalls = @ + 1,
                        !.handlerInvoked = r.errorHandler]
    IN  IF handlerThrows
        THEN HandlerFailed(r1, "threw")
        ELSE [r1 EXCEPT !.status = "handling"]

\* the synchronous part of Action.execute(postExecuteCallback)
ExecuteSync(r, cb, how) ==
    LET r1 == [r EXCEPT !.callback = cb] IN
    CASE how = "promise" -> [r1 EXCEPT !.status = "running"]
      [] how = "throwHandlerPromise" -> InvokeHandler(r1, "threw", FALSE)
      [] how = "throwHandlerThrow" -> InvokeHandler(r1, "threw", TRUE)

\* the continuation of the promise of this._action()
ActionSettled(r, how) ==
    CASE how = "ok" -> CallbackCalled([r EXCEPT !.outcome = "ok"])
      [] how = "rejectHandlerPromise" -> InvokeHandler(r, "rejected", FALSE)
      [] how = "rejectHandlerThrow" -> InvokeHandler(r, "rejected", TRUE)

\* the continuation of the promise of this._errorHandler(error)
HandlerSettled(r, ok) ==
    IF ok THEN HandlerSucceeded(r) ELSE HandlerFailed(r, "rejected")

\* public get queueLength(): number { return this._actionsToProcess.length; }
queueLengthWithExecuting == Len(actionsToProcess) + Len(actionsExecuting)

queueLength == Len(actionsToProcess)

\* the two postExecuteCallback closures: the scheduler's removes the action
\* and re-arms ("rearm"), the one of dispose only removes it ("remove")
CallbackNoRearm(cb, ex, t, q, disposed, a) ==
    [executing |-> Remove(ex, a), timer |-> t]

\* mutation of Callback: the scheduler's closure re-arms twice
CallbackRearmsTwice(cb, ex, t, q, disposed, a) ==
    [executing |-> Remove(ex, a),
     timer |-> IF cb = "rearm"
               THEN InitiateBackgroundProcessing(
                        InitiateBackgroundProcessing(t, q, disposed),
                        q, disposed)
               ELSE t]

Callback(cb, ex, t, q, disposed, a) ==
    [executing |-> Remove(ex, a),
     timer |-> IF cb = "rearm"
               THEN InitiateBackgroundProcessing(t, q, disposed)
               ELSE t]

\* the processor state after r1, the new record of action a, was computed:
\* the callback has run in this step exactly if r1 is done
AfterStepRearmsAtStart(r1, ex, t, q, disposed, a) ==
    IF r1.status = "done"
    THEN Callback(r1.callback, ex, t, q, disposed, a)
    ELSE [executing |-> ex,
          timer |-> IF r1.callback = "rearm"
                    THEN InitiateBackgroundProcessing(t, q, disposed)
                    ELSE t]

AfterStep(r1, ex, t, q, disposed, a) ==
    IF r1.status = "done"
    THEN Callback(r1.callback, ex, t, q, disposed, a)
    ELSE [executing |-> ex, timer |-> t]

\* a completed Action is referenced by nothing: what happened to it is kept
\* for the step that completes it and dropped by the next step
DoneRecord == [NoRecord EXCEPT !.status = "done"]

Forget(rs) ==
    [a \in ActionIds |-> IF rs[a].status = "done" THEN DoneRecord ELSE rs[a]]

NoDisposal ==
    [pc |-> "none", kill |-> FALSE, pending |-> <<>>, executing |-> <<>>]

\* the state after construction: the constructor has armed the first timer
ProcInit ==
    /\ breakIntervalMilliseconds \in {0, DefaultBreakInterval}
    /\ breakOnlyWhenNoWork \in BOOLEAN
    /\ actionsToProcess = <<>>
    /\ actionsExecuting = <<>>
    /\ isDisposed = FALSE
    /\ timer = [armed |-> 1, live |-> TRUE, delay |-> breakIntervalMilliseconds]
    /\ enqueued = 0
    /\ rec = [a \in ActionIds |-> NoRecord]
    /\ startLog = <<>>
    /\ lastCall = "none"
    /\ disposal = NoDisposal

\* processAction(action, errorHandler?); h tells whether a handler is passed
ProcessAction(h) ==
    /\ IF DisposedCheck(isDisposed)
       THEN /\ lastCall' = "ObjectDisposedException"
            /\ rec' = Forget(rec)
            /\ UNCHANGED <<actionsToProcess, enqueued>>
       ELSE /\ enqueued < MaxActions
            /\ enqueued' = enqueued + 1
            /\ rec' = [Forget(rec) EXCEPT ![enqueued + 1] = NewAction(h)]
            /\ actionsToProcess' = Append(actionsToProcess, enqueued + 1)
            /\ lastCall' = "accepted"
    /\ UNCHANGED <<breakIntervalMilliseconds, breakOnlyWhenNoWork,
                   actionsExecuting, isDisposed, timer, startLog, disposal>>
    /\ UNCHANGED <<guardVars, setupVars, valueVars>>

\* the timer callback of _initiateBackgroundProcessing runs. which: the timer
\* that this._timeout names ("cur") or an earlier one ("old")
TimerFires(which, how) ==
    /\ IF which = "cur"
       THEN timer.live
       ELSE timer.armed > (IF timer.live THEN 1 ELSE 0)
    /\ LET t1 == [timer EXCEPT !.armed = @ - 1,
                               !.live = IF which = "cur" THEN FALSE ELSE @]
       IN  IF Len(actionsToProcess) > 0
           THEN LET a == Shift(actionsToProcess).action
                    q1 == Shift(actionsToProcess).rest
                    r1 == ExecuteSync(rec[a], "rearm", how)
                    after == AfterStep(r1, Append(actionsExecuting, a), t1, q1,
                                       isDisposed, a)
                IN  /\ actionsToProcess' = q1
                    /\ startLog' = Append(startLog, a)
                    /\ rec' = [Forget(rec) EXCEPT ![a] = r1]
                    /\ actionsExecuting' = after.executing
                    /\ timer' = after.timer
           ELSE /\ how = "promise"
                /\ timer' = InitiateBackgroundProcessing(t1, actionsToProcess,
                                                         isDisposed)
                /\ rec' = Forget(rec)
                /\ UNCHANGED <<actionsToProcess, startLog, actionsExecuting>>
    /\ lastCall' = "none"
    /\ UNCHANGED <<breakIntervalMilliseconds, breakOnlyWhenNoWork, isDisposed,
                   enqueued, disposal>>
    /\ UNCHANGED <<guardVars, setupVars, valueVars>>

\* the promise of a running action settles and its continuation runs
ActionSettles(a, how) ==
    /\ rec[a].status = "running"
    /\ LET r1 == ActionSettled(rec[a], how)
           after == AfterStep(r1, actionsExecuting, timer, actionsToProcess,
                              isDisposed, a)
       IN  /\ rec' = [Forget(rec) EXCEPT ![a] = r1]
           /\ actionsExecuting' = after.executing
           /\ timer' = after.timer
    /\ lastCall' = "none"
    /\ UNCHANGED <<breakIntervalMilliseconds, breakOnlyWhenNoWork,
                   actionsToProcess, isDisposed, enqueued, startLog, disposal>>
    /\ UNCHANGED <<guardVars, setupVars, valueVars>>

\* the promise of an error handler settles and its continuation runs
HandlerSettles(a, ok) ==
    /\ rec[a].status = "handling"
    /\ LET r1 == HandlerSettled(rec[a], ok)
           after == AfterStep(r1, actionsExecuting, timer, actionsToProcess,
                              isDisposed, a)
       IN  /\ rec' = [Forget(rec) EXCEPT ![a] = r1]
           /\ actionsExecuting' = after.executing
           /\ timer' = after.timer
    /\ lastCall' = "none"
    /\ UNCHANGED <<breakIntervalMilliseconds, breakOnlyWhenNoWork,
                   actionsToProcess, isDisposed, enqueued, startLog, disposal>>
    /\ UNCHANGED <<guardVars, setupVars, valueVars>>

\* the drain loop of dispose(false): every pending action is shifted, pushed
\* to actionsExecuting and executed; st is [queue, executing, rec], hows says
\* how the synchronous part of each execute goes
RECURSIVE Drain(_, _)
Drain(st, hows) ==
    IF Len(st.queue) = 0
    THEN st
    ELSE LET a == Shift(st.queue).action
             r1 == ExecuteSync(st.rec[a], "remove", hows[a])
             ex1 == Append(st.executing, a)
         IN  Drain([queue |-> Shift(st.queue).rest,
                    executing |-> IF r1.status = "done"
                                  THEN Remove(ex1, a) ELSE ex1,
                    rec |-> [st.rec EXCEPT ![a] = r1]],
                   hows)

\* if (!killQueue) { while (this._actionsToProcess.length > 0) ... }
DrainSkipped(kill, st, hows) == st

\* mutation of DrainUnlessKilled: killQueue empties the queue
DrainOrClear(kill, st, hows) ==
    IF ~kill THEN Drain(st, hows) ELSE [st EXCEPT !.queue = <<>>]

DrainUnlessKilled(kill, st, hows) == IF ~kill THEN Drain(st, hows) ELSE st

\* while (this._actionsExecuting.length > 0) await Delay.seconds(3);
DisposeWaitSkipped(ex) == "resolved"

DisposeWait(ex) == IF Len(ex) > 0 THEN "waiting" ELSE "resolved"

\* if (this._isDisposed) return;
AlreadyDisposedIgnored(disposed) == FALSE

AlreadyDisposed(disposed) == disposed

\* the actions a dispose call executes itself
Drained(kill) ==
    IF AlreadyDisposed(isDisposed) \/ kill
    THEN {}
    ELSE {actionsToProcess[k] : k \in 1..Len(actionsToProcess)}

\* dispose(killQueue), up to its first await or its return
Dispose(kill, hows) ==
    /\ IF AlreadyDisposed(isDisposed)
       THEN /\ lastCall' = IF kill THEN "disposeTrueAtOnce" ELSE "disposeFalseAtOnce"
            /\ rec' = Forget(rec)
            /\ UNCHANGED <<isDisposed, timer, actionsToProcess,
                           actionsExecuting, startLog, disposal>>
       ELSE /\ isDisposed' = TRUE
            /\ timer' = ClearTimeout(timer)
            /\ LET st == DrainUnlessKilled(kill,
                                           [queue |-> actionsToProcess,
                                            executing |-> actionsExecuting,
                                            rec |-> Forget(rec)], hows)
               IN  /\ actionsToProcess' = st.queue
                   /\ actionsExecuting' = st.executing
                   /\ rec' = st.rec
                   /\ startLog' = startLog \o
                          SubSeq(actionsToProcess, 1,
                                 Len(actionsToProcess) - Len(st.queue))
                   /\ disposal' = [pc |-> DisposeWait(st.executing),
                                   kill |-> kill,
                                   pending |-> actionsToProcess,
                                   executing |-> actionsExecuting]
            /\ lastCall' = "none"
    /\ UNCHANGED <<breakIntervalMilliseconds, breakOnlyWhenNoWork, enqueued>>
    /\ UNCHANGED <<guardVars, setupVars, valueVars>>

\* Delay.seconds(3) of the waiting dispose call is over: the loop condition is
\* evaluated again
DisposePoll ==
    /\ disposal.pc = "waiting"
    /\ disposal' = [disposal EXCEPT !.pc = DisposeWait(actionsExecuting)]
    /\ rec' = Forget(rec)
    /\ lastCall' = "none"
    /\ UNCHANGED <<breakIntervalMilliseconds, breakOnlyWhenNoWork,
                   actionsToProcess, actionsExecuting, isDisposed, timer,
                   enqueued, startLog>>
    /\ UNCHANGED <<guardVars, setupVars, valueVars>>

ProcNext ==
    \/ \E h \in {"none", "custom"} : ProcessAction(h)
    \/ \E which \in {"cur", "old"} : \E how \in SyncHows : TimerFires(which, how)
    \/ \E a \in ActionIds : \E how \in SettleHows : ActionSettles(a, how)
    \/ \E a \in ActionIds : \E ok \in BOOLEAN : HandlerSettles(a, ok)
    \/ \E kill \in BOOLEAN : \E hows \in [Drained(kill) -> SyncHows] :
          Dispose(kill, hows)
    \/ DisposePoll

\* ------------------------------------------------------------------------
\* Properties of BackgroundProcessor
\* ------------------------------------------------------------------------
Range(q) == {q[k] : k \in 1..Len(q)}

\* the action of the record failed: it threw, or its promise rejected
Failed(r) == r.outcome \in {"threw", "rejected"}

\* the handler a record must route its failure to
OwnHandler(r) == IF r.given = "custom" THEN "custom" ELSE "default"

\* the scheduler has a timer armed for its next tick
Rearmed(t) == t.live /\ t.armed >= 1

\* C3: actions are started in exactly the order in which processAction
\* accepted them (the n-th accepted action is the n-th started), whether the
\* scheduler or the drain of dispose(false) starts them.
C3_FifoStartOrder ==
    \A k \in 1..Len(startLog) : startLog[k] = k

\* three actions were started, the first by the scheduler and the other two
\* by dispose(false), which has resolved
C3_Witness ==
    /\ startLog = <<1, 2, 3>>
    /\ disposal.pc = "resolved"
    /\ ~disposal.kill
    /\ disposal.pending = <<2, 3>>

\* C4 for the disposing call: when the promise of the dispose call that
\* disposes the
\* processor (the first one), made with killQueue = false, has resolved,
\* every action that was pending or executing when it was called has been
\* started and has completed (its completion callback has run).
C4_FirstDisposeFalseWaitsForAll ==
    (disposal.pc = "resolved" /\ ~disposal.kill)
    => \A a \in Range(disposal.pending) \cup Range(disposal.executing) :
          rec[a].status = "done" /\ a \in Range(startLog)

\* dispose(false) found two actions pending and one executing, had to wait,
\* and has resolved
C4_Witness ==
    /\ disposal.pc = "resolved"
    /\ ~disposal.kill
    /\ Len(disposal.pending) = 2
    /\ Len(disposal.executing) = 1

\* C4 as stated, for every dispose(false) call: in the step in which its
\* promise resolves, every action that was pending or executing when it was
\* called has completed. A call that finds the processor disposed resolves in
\* the step of the call itself.
C4_EveryDisposeFalseWaitsForAll ==
    [][/\ (disposal'.pc = "resolved" /\ ~disposal'.kill)
          => \A a \in Range(disposal'.pending) \cup Range(disposal'.executing) :
                rec'[a].status = "done"
       /\ lastCall' = "disposeFalseAtOnce"
          => \A a \in Range(actionsToProcess) \cup Range(actionsExecuting) :
                rec'[a].status = "done"
      ]_vars

\* C5: once dispose(true) has disposed the processor, no action that was
\* pending at that moment is ever started, by dispose or by the scheduler.
C5_KilledQueueNeverStarted ==
    (isDisposed /\ disposal.kill)
    => \A a \in Range(disposal.pending) :
          rec[a].status = "pending" /\ a \notin Range(startLog)

\* dispose(true) was called with one action in flight and others pending; the
\* action in flight has completed since, and dispose has resolved
C5_Witness ==
    /\ isDisposed
    /\ disposal.kill
    /\ disposal.pc = "resolved"
    /\ Len(disposal.pending) >= 2
    /\ Len(disposal.executing) = 1
    /\ \A a \in Range(disposal.executing) : rec[a].status = "done"

\* C6: from the moment dispose has been called, every processAction call
\* fails with the disposed-object error, and no step appends a record to
\* pendingActions; this includes the time dispose is waiting.
C6_NoEnqueueAfterDispose ==
    [][isDisposed
       => /\ lastCall' # "accepted"
          /\ enqueued' = enqueued
          /\ Len(actionsToProcess') <= Len(actionsToProcess)
          /\ Range(actionsToProcess') \subseteq Range(actionsToProcess)
      ]_vars

\* processAction was refused while dispose is still waiting for work in flight
C6_Witness ==
    /\ isDisposed
    /\ disposal.pc = "waiting"
    /\ lastCall = "ObjectDisposedException"

\* C7: in the step that completes an action that threw or whose promise
\* rejected, the error handler has run, the record has left executingActions,
\* the queue of pending actions is what the start of the action left, and the
\* scheduler has re-armed its timer (when the scheduler started the action and
\* the processor is not disposed); until then the record stays in
\* executingActions.
C7_FailedActionCompletes ==
    [][\A a \in ActionIds :
          LET r == rec'[a] IN
          /\ (Failed(r) /\ rec[a].status # "done" /\ r.status = "done")
             => /\ r.handlerCalls = 1
                /\ r.handlerOutcome # "none"
                /\ a \notin Range(actionsExecuting')
                /\ actionsToProcess' =
                      IF rec[a].status # "pending" THEN actionsToProcess
                      ELSE IF r.callback = "rearm" THEN Tail(actionsToProcess)
                      ELSE <<>>
                /\ (r.callback = "rearm" /\ ~isDisposed') => Rearmed(timer')
          /\ (Failed(r) /\ r.status # "done") => a \in Range(actionsExecuting')
      ]_vars

\* an action started by the scheduler threw, its handler has run, and the
\* scheduler is armed again with later actions still pending
C7_Witness ==
    \E a \in ActionIds :
       /\ rec[a].status = "done"
       /\ rec[a].outcome = "threw"
       /\ rec[a].handlerOutcome = "ok"
       /\ rec[a].callback = "rearm"
       /\ ~isDisposed
       /\ Rearmed(timer)
       /\ Len(actionsToProcess) >= 1
       /\ a \notin Range(actionsExecuting)

\* C8: in the step in which the error handler of a failed action fails (it
\* throws, or its promise rejects), the failure goes to console.error once,
\* the step still runs the completion callback (nothing is re-thrown), the
\* record leaves executingActions and the scheduler re-arms.
C8_HandlerFailureIsReported ==
    [][\A a \in ActionIds :
          LET r == rec'[a] IN
          (rec[a].handlerOutcome = "none" /\ r.handlerOutcome \in {"threw", "rejected"})
          => /\ Failed(r)
             /\ r.reported = 1
             /\ r.status = "done"
             /\ r.callbackRuns = 1
             /\ a \notin Range(actionsExecuting')
             /\ (r.callback = "rearm" /\ ~isDisposed') => Rearmed(timer')
      ]_vars

\* the promise of an error handler rejected, the rejection was reported, and
\* the scheduler is armed again with later actions still pending
C8_Witness ==
    \E a \in ActionIds :
       /\ rec[a].status = "done"
       /\ rec[a].handlerOutcome = "rejected"
       /\ rec[a].reported = 1
       /\ rec[a].callback = "rearm"
       /\ ~isDisposed
       /\ Rearmed(timer)
       /\ Len(actionsToProcess) >= 1

\* C9: the error handler of a record is called exactly when its action has
\* failed, at most once, and the handler called is the one passed to
\* processAction, or the default handler when none was passed; it is not
\* called for an action that succeeds.
C9_FailureRoutedOnceToOwnHandler ==
    \A a \in ActionIds :
       LET r == rec[a] IN
       /\ r.handlerCalls <= 1
       /\ Failed(r) <=> r.handlerCalls = 1
       /\ r.handlerCalls = 1 => r.handlerInvoked = OwnHandler(r)
       /\ r.handlerCalls = 0 => r.handlerInvoked = "none"
       /\ r.outcome = "ok" => r.handlerCalls = 0

\* one failure went to a handler passed to processAction, another to the
\* default handler, and a third action has succeeded
C9_Witness ==
    \E a, b, c \in ActionIds :
       /\ Failed(rec[a]) /\ rec[a].given = "custom"
       /\ rec[a].handlerInvoked = "custom"
       /\ Failed(rec[b]) /\ rec[b].given = "none"
       /\ rec[b].handlerInvoked = "default"
       /\ rec[c].outcome = "ok" /\ rec[c].handlerCalls = 0

\* C17: a dispose call that finds the processor disposed returns at once and
\* changes nothing; and once the processor is disposed no step starts an
\* action, changes the pending queue, touches the timer or replaces what the
\* disposing call recorded, so dispose(false) after dispose(true) starts none
\* of the abandoned actions.
C17_LaterDisposeChangesNothing ==
    [][/\ lastCall' \in {"disposeTrueAtOnce", "disposeFalseAtOnce"}
          => /\ isDisposed
             /\ UNCHANGED <<breakIntervalMilliseconds, breakOnlyWhenNoWork,
                            actionsToProcess, actionsExecuting, isDisposed,
                            timer, enqueued, startLog, disposal>>
             /\ \A a \in ActionIds : rec'[a].status = rec[a].status
       /\ isDisposed
          => /\ isDisposed'
             /\ UNCHANGED <<actionsToProcess, startLog, timer>>
             /\ disposal' = [disposal EXCEPT !.pc = disposal'.pc]
             /\ \A a \in ActionIds :
                   rec[a].status = "pending" => rec'[a].status = "pending"
      ]_vars

\* dispose(false) was called after dispose(true) had abandoned two pending
\* actions with a third in flight: it returned at once, and the two are still
\* pending
C17_Witness ==
    /\ lastCall = "disposeFalseAtOnce"
    /\ disposal.kill
    /\ Len(actionsToProcess) = 2
    /\ Len(actionsExecuting) = 1
    /\ \A a \in Range(actionsToProcess) : rec[a].status = "pending"

\* C18: while the processor is not disposed, at most one action is
\* executing, and while one is executing no timer of the scheduler is
\* outstanding: the next tick is armed by the completion of the action.
C18_OneAtATimeUntilDisposed ==
    ~isDisposed
    => /\ Len(actionsExecuting) <= 1
       /\ timer.armed + Len(actionsExecuting) = 1

\* an action is executing with two more pending, and no tick is armed
C18_Witness ==
    /\ ~isDisposed
    /\ Len(actionsExecuting) = 1
    /\ Len(actionsToProcess) = 2
    /\ timer.armed = 0

\* no element occurs twice in q
NoDuplicates(q) == \A j, k \in 1..Len(q) : q[j] = q[k] => j = k

\* the stage of a record: 0 not constructed, 1 pending, 2 executing (its
\* action or its error handler is in flight), 3 completed
Stage(r) ==
    CASE r.status = "none" -> 0
      [] r.status = "pending" -> 1
      [] r.status \in {"running", "handling"} -> 2
      [] OTHER -> 3

\* C19: pendingActions holds exactly the records that have not been started
\* and executingActions exactly those in flight, each once, so no record is
\* in both; and no step moves a record to an earlier stage of
\* pending -> executing -> completed.
C19_RecordInOnePlaceMovingForward ==
    /\ [](/\ NoDuplicates(actionsToProcess)
          /\ NoDuplicates(actionsExecuting)
          /\ Range(actionsToProcess) \cap Range(actionsExecuting) = {}
          /\ \A a \in ActionIds :
                /\ a \in Range(actionsToProcess) <=> Stage(rec[a]) = 1
                /\ a \in Range(actionsExecuting) <=> Stage(rec[a]) = 2)
    /\ [][\A a \in ActionIds :
             /\ Stage(rec'[a]) >= Stage(rec[a])
             /\ Stage(rec[a]) = 0 => Stage(rec'[a]) <= 1
         ]_vars

\* one record is pending, one is executing and one has completed
C19_Witness ==
    \E a, b, c \in ActionIds :
       /\ actionsToProcess = <<a>> /\ Stage(rec[a]) = 1
       /\ actionsExecuting = <<b>> /\ Stage(rec[b]) = 2
       /\ Stage(rec[c]) = 3

\* C20: queueLength is the number of accepted actions that have not been
\* started: the accepted ones (one more for each successful processAction)
\* less the started ones (one more for each start, by the scheduler or by the
\* drain of dispose); the executing records are among the started and are
\* not counted.
C20_QueueLengthCountsNotStarted ==
    /\ queueLength = enqueued - Len(startLog)
    /\ queueLength =
          Cardinality({a \in 1..enqueued : a \notin Range(startLog)})
    /\ Range(actionsExecuting) \subseteq Range(startLog)

\* three actions were accepted and one was started and is executing:
\* queueLength is 2
C20_Witness ==
    /\ enqueued = 3
    /\ startLog = <<1>>
    /\ actionsExecuting = <<1>>
    /\ queueLength = 2

\* a step in which the scheduler arms a tick: a timer is outstanding after
\* the step, and either none was before (an action has completed), or an
\* action was started (and completed within the step), or the tick found
\* nothing pending
ArmingStep ==
    /\ timer'.live
    /\ \/ ~timer.live
       \/ startLog' # startLog
       \/ actionsToProcess' = <<>>

\* C21 as amended: the timer armed by the constructor has the configured
\* interval as its delay, and every later arming uses delay zero when
\* breakOnlyWhenNoWork is set and actions are pending at that moment, and the
\* configured interval (which may itself be zero) otherwise.
C21_TickDelayPolicy ==
    /\ [](enqueued = 0 /\ timer.live
            => timer.delay = breakIntervalMilliseconds)
    /\ [][ArmingStep
           => timer'.delay = IF breakOnlyWhenNoWork /\ Len(actionsToProcess') > 0
                             THEN 0
                             ELSE breakIntervalMilliseconds
         ]_vars

\* an action has completed with others still pending, and the scheduler has
\* armed its next tick with delay zero although the interval is not zero
C21_Witness ==
    /\ breakOnlyWhenNoWork
    /\ breakIntervalMilliseconds = DefaultBreakInterval
    /\ ~isDisposed
    /\ timer.live
    /\ timer.delay = 0
    /\ Len(actionsToProcess) >= 1
    /\ \E a \in ActionIds : rec[a].status = "done" /\ rec[a].callbackRuns = 1

\* C21 as stated: the delay of an arming is zero if and only if
\* breakOnlyWhenNoWork is set and actions are pending at that moment.
C21_DelayZeroOnlyForPendingWork ==
    [][ArmingStep
       => (timer'.delay = 0
           <=> (breakOnlyWhenNoWork /\ Len(actionsToProcess') > 0))
      ]_vars

\* C22: from the step of the dispose call on, no timer of the scheduler is
\* outstanding, so no tick can fire, and no step arms one: the timer stays
\* as dispose left it, also in the step in which an action that was in flight
\* completes and its callback calls _initiateBackgroundProcessing.
C22_NoTickAfterDispose ==
    /\ [](isDisposed => timer.armed = 0 /\ ~timer.live)
    /\ [][isDisposed' => timer'.armed = 0 /\ (isDisposed => timer' = timer)]_vars

\* the processor was disposed while an action started by the scheduler was in
\* flight; that action has completed in this step, its callback has run, and
\* no timer is armed
C22_Witness ==
    /\ isDisposed
    /\ timer.armed = 0
    /\ \E a \in Range(disposal.executing) :
          /\ rec[a].status = "done"
          /\ rec[a].callback = "rearm"
          /\ rec[a].callbackRuns = 1

\* C23 as amended: in the step of the dispose(false) call that disposes the
\* processor (before its first wait), every pending record is started, in
\* queue order, and is then executing or already completed, and queueLength
\* is 0 after the step.
C23_DisposingCallDrainsAtOnce ==
    [][(~isDisposed /\ isDisposed' /\ ~disposal'.kill)
       => /\ queueLength' = 0
          /\ startLog' = startLog \o actionsToProcess
          /\ \A a \in Range(actionsToProcess) :
                /\ Stage(rec'[a]) >= 2
                /\ Stage(rec'[a]) = 2 <=> a \in Range(actionsExecuting')
          /\ disposal'.pc = IF actionsExecuting' = <<>> THEN "resolved"
                                                        ELSE "waiting"
      ]_vars

\* dispose(false) found three actions pending, has started all of them and is
\* waiting for them
C23_Witness ==
    /\ isDisposed
    /\ ~disposal.kill
    /\ disposal.pc = "waiting"
    /\ disposal.pending = <<1, 2, 3>>
    /\ startLog = <<1, 2, 3>>
    /\ queueLength = 0
    /\ Len(actionsExecuting) >= 2

\* C23 as stated, for every dispose(false) call: when the call has returned
\* its promise, queueLength is 0 and every action that was pending has been
\* started.
C23_EveryDisposeFalseDrains ==
    [][((~isDisposed /\ isDisposed' /\ ~disposal'.kill)
        \/ lastCall' = "disposeFalseAtOnce")
       => /\ queueLength' = 0
          /\ Range(actionsToProcess) \subseteq Range(startLog')
      ]_vars

\* C27: in every step in which the promise of a dispose call resolves (the
\* disposing call finds executingActions empty, at once or at a poll; a later
\* call returns at once), executingActions is empty.
C27_EveryDisposeResolvesWithNothingExecuting ==
    [][/\ (disposal.pc # "resolved" /\ disposal'.pc = "resolved")
          => actionsExecuting' = <<>>
       /\ lastCall' \in {"disposeTrueAtOnce", "disposeFalseAtOnce"}
          => actionsExecuting' = <<>>
      ]_vars

\* the action of record r was started by the scheduler and has not completed
SchedulerStartedExecuting(r) ==
    r.callback = "rearm" /\ r.status \in {"running", "handling"}

\* the execution of record r has come to the end of one of its paths: the
\* action succeeded, or its error handler succeeded, threw or rejected
PathEnded(r) == r.outcome = "ok" \/ r.handlerOutcome # "none"

\* C28: at most one timer is armed, no timer is armed while an action started
\* by the scheduler is still executing, and the completion callback of a
\* started action has run exactly once when its path has ended (and not
\* before), whichever path it took.
C28_OneTickOutstanding ==
    /\ timer.armed <= 1
    /\ \A a \in ActionIds :
          SchedulerStartedExecuting(rec[a]) => timer.armed = 0
    /\ \A a \in ActionIds :
          rec[a].callback # "none"
          => rec[a].callbackRuns = IF PathEnded(rec[a]) THEN 1 ELSE 0

\* an action started by the scheduler failed, its handler's promise was
\* rejected, the callback has run once and the next tick is armed
C28_Witness ==
    \E a \in ActionIds :
        /\ rec[a].callback = "rearm"
        /\ rec[a].outcome = "rejected"
        /\ rec[a].handlerOutcome = "rejected"
        /\ rec[a].callbackRuns = 1
        /\ timer.armed = 1 /\ timer.live

\* C29: if dispose is never called, timers fire and every started action and
\* every invoked error handler settles, then every accepted action is
\* eventually started, and while the processor is not disposed the scheduler
\* has a timer set or is waiting for the action it started.  (An action is
\* accepted only before dispose, so "pending leads to started or disposed"
\* says the same of every behaviour as "never disposed implies pending
\* leads to started".)
C29_AcceptedActionEventuallyStarted ==
    /\ \A a \in ActionIds :
          (rec[a].status = "pending")
          ~> (isDisposed \/ (a \in Range(startLog)
                              /\ rec[a].status # "pending"))
    /\ [](~isDisposed
           => timer.live
              \/ \E a \in ActionIds : SchedulerStartedExecuting(rec[a]))

\* the last accepted action was started by the scheduler after the ones
\* before it, and the processor was never disposed
C29_Witness ==
    /\ ~isDisposed
    /\ enqueued = MaxActions
    /\ startLog = [k \in 1..MaxActions |-> k]
    /\ rec[MaxActions].callback = "rearm"

\* C30: every dispose call eventually resolves, whatever killQueue is and
\* whenever it is made, provided every started action and every invoked
\* error handler settles.  (A call on a disposed processor resolves in the
\* step that makes it; the disposing call is the one that may wait.)
C30_DisposeEventuallyResolves ==
    (disposal.pc = "waiting") ~> (disposal.pc = "resolved")

\* a dispose(false) call that found an action executing and actions pending,
\* and so had to wait, has resolved
C30_Witness ==
    /\ disposal.pc = "resolved"
    /\ ~disposal.kill
    /\ Len(disposal.pending) > 0
    /\ Len(disposal.executing) > 0
    /\ Len(actionsExecuting) = 0

\* C31: dispose(true) leaves actionsToProcess as it is: the abandoned records
\* stay in the queue, so from the call on, and after it has resolved,
\* queueLength is the number of actions that were pending when it was made.
C31_KilledQueueStaysInPlace ==
    /\ [](disposal.pc # "none" /\ disposal.kill
           => /\ actionsToProcess = disposal.pending
              /\ queueLength = Len(disposal.pending))
    /\ [][lastCall' = "disposeTrueAtOnce"
           => actionsToProcess' = actionsToProcess]_vars

\* dispose(true) was called with actions pending and has resolved
C31_Witness ==
    /\ disposal.pc = "resolved"
    /\ disposal.kill
    /\ Len(disposal.pending) > 1
    /\ queueLength = Len(disposal.pending)

\* ========================================================================
\* Version
\* ========================================================================

\* the values of <<major, minor, patch>>
Versions ==
    (0..MaxVersionPart) \X (0..MaxVersionPart) \X (0..MaxVersionPart)

\* private compare(v1, v2)
compare(v1, v2) == IF v1 > v2 THEN 1 ELSE IF v1 < v2 THEN -1 ELSE 0

\* this.compareTo(version)
compareTo(this, version) ==
    LET majorCompare == compare(this[1], version[1])
        minorCompare == compare(this[2], version[2])
    IN  IF majorCompare # 0 THEN majorCompare
        ELSE IF minorCompare # 0 THEN minorCompare
        ELSE compare(this[3], version[3])

VersionInit ==
    /\ thisVersion \in Versions
    /\ otherVersion \in Versions
    /\ comparison = [done |-> FALSE, result |-> 0]

\* thisVersion.compareTo(otherVersion) is called and returns
CompareTo ==
    /\ ~comparison.done
    /\ comparison' = [done |-> TRUE,
                      result |-> compareTo(thisVersion, otherVersion)]
    /\ UNCHANGED <<thisVersion, otherVersion>>
    /\ UNCHANGED <<guardVars, procVars, setupVars, durationVars>>

VersionNext == CompareTo

\* version a is newer than version b: major first, then minor, then patch
Newer(a, b) ==
    \/ a[1] > b[1]
    \/ a[1] = b[1] /\ a[2] > b[2]
    \/ a[1] = b[1] /\ a[2] = b[2] /\ a[3] > b[3]

\* C24: compareTo returns 1 if the given version is newer than this version,
\* -1 if the given version is older, and 0 if the two are the same.
C24_CompareToSaysGivenIsNewer ==
    comparison.done
    => comparison.result =
          IF Newer(otherVersion, thisVersion) THEN 1
          ELSE IF Newer(thisVersion, otherVersion) THEN -1
          ELSE 0

\* ========================================================================
\* Duration
\* ========================================================================
\* A Duration holds a JavaScript number.  A number is an IEEE-754 double:
\* a sign, a significand of at most MantissaBits bits and a power of two.
\* Every product and quotient is rounded to the nearest such value, ties to
\* the even significand.  The amounts drawn below stay far inside the
\* exponent range, so overflow to Infinity and subnormal values do not occur.

\* bits of the significand of a number
MantissaBits == 53

\* ---- natural numbers of any size: bits, least significant first, the
\* ---- last bit 1; zero is <<>>

\* b without its zero bits at the top
Trim(b) ==
    IF \A i \in 1..Len(b) : b[i] = 0 THEN <<>>
    ELSE LET top == CHOOSE i \in 1..Len(b) :
                        b[i] = 1 /\ \A j \in (i + 1)..Len(b) : b[j] = 0
         IN  SubSeq(b, 1, top)

\* the bits of a small n
RECURSIVE Bits(_)
Bits(n) == IF n = 0 THEN <<>> ELSE <<n % 2>> \o Bits(n \div 2)

\* the low Len(b) bits of b * c + carry, and the carry out of them; the
\* halves of b are taken in turn, the low one first
RECURSIVE MulBits(_, _, _)
MulBits(b, c, carry) ==
    IF Len(b) = 0 THEN [bits |-> <<>>, carry |-> carry]
    ELSE IF Len(b) = 1
    THEN LET t == b[1] * c + carry
         IN  [bits |-> <<t % 2>>, carry |-> t \div 2]
    ELSE LET h  == Len(b) \div 2
             lo == MulBits(SubSeq(b, 1, h), c, carry)
             hi == MulBits(SubSeq(b, h + 1, Len(b)), c, lo.carry)
         IN  [bits |-> lo.bits \o hi.bits, carry |-> hi.carry]

\* b * c + carry, exactly
MulAdd(b, c, carry) ==
    LET p == MulBits(b, c, carry) IN Trim(p.bits \o Bits(p.carry))

Reverse(b) == [i \in 1..Len(b) |-> b[Len(b) + 1 - i]]

\* long division by c of the number whose bits, the most significant
\* first, are those of r < c followed by b: the Len(b) bits of the
\* quotient, the most significant first, and the remainder; the halves of
\* b are taken in turn
RECURSIVE DivBits(_, _, _)
DivBits(b, c, r) ==
    IF Len(b) = 0 THEN [q |-> <<>>, r |-> r]
    ELSE IF Len(b) = 1
    THEN LET t == 2 * r + b[1]
         IN  IF t >= c THEN [q |-> <<1>>, r |-> t - c]
             ELSE [q |-> <<0>>, r |-> t]
    ELSE LET h  == Len(b) \div 2
             hi == DivBits(SubSeq(b, 1, h), c, r)
             lo == DivBits(SubSeq(b, h + 1, Len(b)), c, hi.r)
         IN  [q |-> hi.q \o lo.q, r |-> lo.r]

\* quotient and remainder of b by c
DivMod(b, c) ==
    LET d == DivBits(Reverse(b), c, 0)
    IN  [q |-> Trim(Reverse(d.q)), r |-> d.r]

\* the natural number written with the decimal digits ds
RECURSIVE FromDecimal(_)
FromDecimal(ds) ==
    IF ds = <<>> THEN <<>>
    ELSE MulAdd(FromDecimal(SubSeq(ds, 1, Len(ds) - 1)), 10, ds[Len(ds)])

Zeros(k) == [i \in 1..k |-> 0]

\* ---- numbers: [neg, m, e] is (-1)^neg * m * 2^e, with m odd, or m = <<>>
\* ---- and e = 0 for zero; equal numbers are equal records, but for -0

Canon(m, e) ==
    IF m = <<>> THEN [m |-> <<>>, e |-> 0]
    ELSE LET low == CHOOSE i \in 1..Len(m) :
                        m[i] = 1 /\ \A j \in 1..(i - 1) : m[j] = 0
         IN  [m |-> SubSeq(m, low, Len(m)), e |-> e + low - 1]

\* the number nearest to m * 2^e (plus a fraction of 2^e when sticky),
\* ties to even
RoundToNumber(m, e, sticky) ==
    LET d == Len(m) - MantissaBits
    IN  IF d <= 0 THEN Canon(m, e)
        ELSE LET kept    == SubSeq(m, d + 1, Len(m))
                 rest    == sticky \/ \E i \in 1..(d - 1) : m[i] = 1
                 roundUp == m[d] = 1 /\ (rest \/ kept[1] = 1)
             IN  Canon(IF roundUp THEN MulAdd(kept, 1, 1) ELSE kept, e + d)

Number(neg, bits) ==
    LET c == Canon(bits, 0) IN [neg |-> neg, m |-> c.m, e |-> c.e]

\* x * c for a whole c > 0
Times(x, c) ==
    IF x.m = <<>> THEN x
    ELSE LET r == RoundToNumber(MulAdd(x.m, c, 0), x.e, FALSE)
         IN  [neg |-> x.neg, m |-> r.m, e |-> r.e]

\* x / c for a whole c in 1..1024: the dividend is scaled so that the
\* quotient has more bits than a significand before it is rounded
DividedBy(x, c) ==
    IF x.m = <<>> THEN x
    ELSE LET g  == MantissaBits + 11
             dm == DivMod(Zeros(g) \o x.m, c)
             r  == RoundToNumber(dm.q, x.e - g, dm.r # 0)
         IN  [neg |-> x.neg, m |-> r.m, e |-> r.e]

\* Math.round(x): the nearest whole number, a half goes up
MathRound(x) ==
    IF x.e >= 0 THEN x
    ELSE LET k    == 0 - x.e
             int  == IF Len(x.m) > k THEN SubSeq(x.m, k + 1, Len(x.m))
                     ELSE <<>>
             half == Len(x.m) >= k /\ x.m[k] = 1
             up   == IF x.neg THEN half /\ k > 1 ELSE half
             c    == Canon(IF up THEN MulAdd(int, 1, 1) ELSE int, 0)
         IN  [neg |-> x.neg, m |-> c.m, e |-> c.e]

\* ---- the class

Units == {"MilliSeconds", "Seconds", "Minutes", "Hours", "Days", "Weeks"}

NoNumber == [neg |-> FALSE, m |-> <<>>, e |-> 0]

\* mutation of NonNegative: the constructor checks nothing
NonNegativeSkipped(t) == TRUE

\* t >= 0 (true of -0)
NonNegative(t) == ~(t.neg /\ t.m # <<>>)

\* new Duration(ms)
NewDuration(ms) ==
    IF NonNegative(ms) THEN [state |-> "made", ms |-> ms]
    ELSE [state |-> "threw", ms |-> NoNumber]

fromMilliSeconds(milliSeconds) == NewDuration(milliSeconds)

fromSeconds(seconds) == fromMilliSeconds(Times(seconds, 1000))

fromMinutes(minutes) == fromSeconds(Times(minutes, 60))

fromHours(hours) == fromMinutes(Times(hours, 60))

fromDays(days) == fromHours(Times(days, 24))

fromWeeks(weeks) == fromDays(Times(weeks, 7))

toMilliSeconds(ms, round) == IF round THEN MathRound(ms) ELSE ms

\* mutation of toSeconds: divides by 100
toSecondsBy100(ms, round) ==
    LET result == DividedBy(toMilliSeconds(ms, FALSE), 100)
    IN  IF round THEN MathRound(result) ELSE result

toSeconds(ms, round) ==
    LET result == DividedBy(toMilliSeconds(ms, FALSE), 1000)
    IN  IF round THEN MathRound(result) ELSE result

toMinutes(ms, round) ==
    LET result == DividedBy(toSeconds(ms, FALSE), 60)
    IN  IF round THEN MathRound(result) ELSE result

toHours(ms, round) ==
    LET result == DividedBy(toMinutes(ms, FALSE), 60)
    IN  IF round THEN MathRound(result) ELSE result

toDays(ms, round) ==
    LET result == DividedBy(toHours(ms, FALSE), 24)
    IN  IF round THEN MathRound(result) ELSE result

toWeeks(ms, round) ==
    LET result == DividedBy(toDays(ms, FALSE), 7)
    IN  IF round THEN MathRound(result) ELSE result

\* Duration.from<u>(x)
FromUnit(u, x) ==
    CASE u = "MilliSeconds" -> fromMilliSeconds(x)
      [] u = "Seconds"      -> fromSeconds(x)
      [] u = "Minutes"      -> fromMinutes(x)
      [] u = "Hours"        -> fromHours(x)
      [] u = "Days"         -> fromDays(x)
      [] u = "Weeks"        -> fromWeeks(x)

\* duration.to<u>(round)
ToUnit(u, ms, round) ==
    CASE u = "MilliSeconds" -> toMilliSeconds(ms, round)
      [] u = "Seconds"      -> toSeconds(ms, round)
      [] u = "Minutes"      -> toMinutes(ms, round)
      [] u = "Hours"        -> toHours(ms, round)
      [] u = "Days"         -> toDays(ms, round)
      [] u = "Weeks"        -> toWeeks(ms, round)

\* whole amounts: the small ones, the largest whole number of seconds
\* whose milliseconds are below 2^53, and one beyond it
WholeAmounts ==
    {Bits(n) : n \in 0..MaxAmount}
    \cup {FromDecimal(<<9, 0, 0, 7, 1, 9, 9, 2, 5, 4, 7, 4, 0>>),
          FromDecimal(<<7, 2, 1, 3, 5, 5, 9, 4, 8, 7, 1, 2, 8, 5>>)}

Amounts == {Number(neg, b) : neg \in BOOLEAN, b \in WholeAmounts}

DurationInit ==
    /\ amount \in Amounts
    /\ unit \in Units
    /\ duration = [state |-> "none", ms |-> NoNumber]
    /\ conversion = [to |-> "none", round |-> FALSE, value |-> NoNumber]

\* Duration.from<unit>(amount) returns or throws
Factory ==
    /\ duration.state = "none"
    /\ duration' = FromUnit(unit, amount)
    /\ UNCHANGED <<amount, unit, conversion>>
    /\ UNCHANGED <<guardVars, procVars, setupVars, versionVars>>

\* duration.to<u>(round) returns
Convert ==
    /\ duration.state = "made"
    /\ conversion.to = "none"
    /\ \E u \in Units, round \in BOOLEAN :
          conversion' = [to |-> u, round |-> round,
                         value |-> ToUnit(u, duration.ms, round)]
    /\ UNCHANGED <<amount, unit, duration>>
    /\ UNCHANGED <<guardVars, procVars, setupVars, versionVars>>

DurationNext == Factory \/ Convert

\* the amount is below zero
Negative(x) == x.neg /\ x.m # <<>>

\* C25: every factory rejects a negative amount with an error, so no
\* Duration ever holds a negative number of milliseconds.
C25_NegativeAmountRejected ==
    /\ duration.state # "none" /\ Negative(amount)
         => duration.state = "threw"
    /\ duration.state = "made" => ~Negative(duration.ms)

\* a factory of a unit above milliseconds has refused a negative amount
C25_Witness ==
    /\ Negative(amount)
    /\ unit = "Weeks"
    /\ duration.state = "threw"

\* the steps from unit u down to milliseconds
Factors(u) ==
    CASE u = "MilliSeconds" -> <<>>
      [] u = "Seconds"      -> <<1000>>
      [] u = "Minutes"      -> <<60, 1000>>
      [] u = "Hours"        -> <<60, 60, 1000>>
      [] u = "Days"         -> <<24, 60, 60, 1000>>
      [] u = "Weeks"        -> <<7, 24, 60, 60, 1000>>

RECURSIVE Product(_, _)
Product(b, fs) ==
    IF fs = <<>> THEN b ELSE Product(MulAdd(b, fs[1], 0), Tail(fs))

\* the whole number x of unit u in milliseconds, exactly, as bits
ExactMilliSeconds(x, u) == Product(Zeros(x.e) \o x.m, Factors(u))

\* x of unit u is below 2^53 milliseconds
BelowTwoTo53(x, u) == Len(ExactMilliSeconds(x, u)) <= MantissaBits

\* the whole number n
Whole(n) == Number(FALSE, Bits(n))

\* what C26 says of a conversion made without rounding
RoundTrips ==
    /\ conversion.to = unit => conversion.value = amount
    /\ conversion.to = "MilliSeconds"
         => conversion.value
              = Number(FALSE, ExactMilliSeconds(amount, unit))
    /\ amount = Whole(2) /\ unit = "Hours" /\ conversion.to = "Minutes"
         => conversion.value = Whole(120)

\* C26 (as amended): for a whole n >= 0 of unit U that is below 2^53
\* milliseconds, fromU(n).toU() is n and fromU(n).toMilliSeconds() is n
\* times the milliseconds of one U; fromHours(2).toMinutes() is 120.
C26_RoundTripBelowTwoTo53 ==
    /\ conversion.to # "none" /\ ~conversion.round
    /\ ~amount.neg /\ BelowTwoTo53(amount, unit)
    => RoundTrips

\* the largest whole number of seconds below 2^53 milliseconds has come
\* back from toSeconds
C26_Witness ==
    /\ amount = Number(FALSE,
                       FromDecimal(<<9, 0, 0, 7, 1, 9, 9, 2, 5, 4, 7, 4, 0>>))
    /\ unit = "Seconds"
    /\ conversion.to = "Seconds" /\ ~conversion.round
    /\ conversion.value = amount

\* C26 as stated: for every whole n >= 0 and every unit U, fromU(n).toU()
\* is n and fromU(n).toMilliSeconds() is n times the milliseconds of one U.
C26_RoundTripOnEveryWholeNumber ==
    conversion.to # "none" /\ ~conversion.round /\ ~amount.neg
    => RoundTrips

\* ------------------------------------------------------------------------
\* Specifications
\* ------------------------------------------------------------------------

\* no BackgroundProcessor has been constructed
ProcIdle ==
    /\ breakIntervalMilliseconds = DefaultBreakInterval
    /\ breakOnlyWhenNoWork = TRUE
    /\ actionsToProcess = <<>>
    /\ actionsExecuting = <<>>
    /\ isDisposed = FALSE
    /\ timer = [armed |-> 0, live |-> FALSE, delay |-> 0]
    /\ enqueued = 0
    /\ rec = [a \in ActionIds |-> NoRecord]
    /\ startLog = <<>>
    /\ lastCall = "none"
    /\ disposal = NoDisposal

\* no guarded method is in use
GuardIdle ==
    /\ hasDelay = FALSE
    /\ isActive = [i \in Instances |-> FALSE]
    /\ scheduledCall = [i \in Instances |-> NoCall]
    /\ callCount = 0
    /\ loops = [i \in Instances |-> {}]
    /\ execLog = <<>>
    /\ lastArg = [i \in Instances |-> NoCall]
    /\ callsSinceStart = [i \in Instances |-> 0]
    /\ lastReturn = "none"

\* no decorator is being set up
SetupIdle ==
    /\ variant = "standard"
    /\ delayGiven = FALSE
    /\ delayMs = 0
    /\ kind = "method"
    /\ setupPc = "start"
    /\ setupCalls = 0

\* no Version is being compared
VersionIdle ==
    /\ thisVersion = <<0, 0, 0>>
    /\ otherVersion = <<0, 0, 0>>
    /\ comparison = [done |-> FALSE, result |-> 0]

\* no Duration is being made
DurationIdle ==
    /\ amount = NoNumber
    /\ unit = "MilliSeconds"
    /\ duration = [state |-> "none", ms |-> NoNumber]
    /\ conversion = [to |-> "none", round |-> FALSE, value |-> NoNumber]

ValuesIdle == VersionIdle /\ DurationIdle

\* the debounce decorator on its own
GuardSpecInit == GuardInit /\ ProcIdle /\ SetupIdle /\ ValuesIdle

GuardSpec == GuardSpecInit /\ [][GuardNext]_vars

\* the debounce decorator with the scheduling of the event loop: a timer that
\* was set fires, a continuation that is ready runs, and (the premise of the
\* liveness claims) the promise of every execution of the target settles
GuardFairness ==
    \A i \in Instances :
       /\ WF_vars(\E fr \in loops[i] : DelayElapsed(i, fr))
       /\ WF_vars(\E fr \in loops[i] : \E ok \in BOOLEAN : Settle(i, fr, ok))
       /\ WF_vars(\E fr \in loops[i] : Resume(i, fr))

GuardLiveSpec == GuardSpecInit /\ [][GuardNext]_vars /\ GuardFairness

\* one BackgroundProcessor on its own
ProcSpecInit == ProcInit /\ GuardIdle /\ SetupIdle /\ ValuesIdle

ProcSpec == ProcSpecInit /\ [][ProcNext]_vars

\* the BackgroundProcessor with the scheduling of the event loop: a timer
\* that was set fires, the wait of dispose ends, and (the premise of the
\* liveness claims) the promise of every started action and of every
\* invoked error handler settles
ProcFairness ==
    /\ WF_vars(\E which \in {"cur", "old"} : \E how \in SyncHows :
                  TimerFires(which, how))
    /\ WF_vars(\E a \in ActionIds : \E how \in SettleHows :
                  ActionSettles(a, how))
    /\ WF_vars(\E a \in ActionIds : \E ok \in BOOLEAN : HandlerSettles(a, ok))
    /\ WF_vars(DisposePoll)

ProcLiveSpec == ProcSpecInit /\ [][ProcNext]_vars /\ ProcFairness

\* the creation and application of a debounce decorator on its own
SetupSpecInit == SetupInit /\ GuardIdle /\ ProcIdle /\ ValuesIdle

SetupSpec == SetupSpecInit /\ [][SetupNext]_vars

\* one call of Version.compareTo on its own
VersionSpecInit ==
    VersionInit /\ DurationIdle /\ GuardIdle /\ ProcIdle /\ SetupIdle

VersionSpec == VersionSpecInit /\ [][VersionNext]_vars

\* one Duration made by a factory and converted once
DurationSpecInit ==
    DurationInit /\ VersionIdle /\ GuardIdle /\ ProcIdle /\ SetupIdle

DurationSpec == DurationSpecInit /\ [][DurationNext]_vars

====
